---- MODULE Spec2Model ----
(***************************************************************************)
(* Authentication and session lifecycle of the health-connect backend:     *)
(* accounts (Doctor / Patient collections), OTP records, sessions, and the *)
(* request handlers of the auth controller.  Every handler is cut at its   *)
(* awaits on the persistence layer, so that handlers of concurrent         *)
(* requests interleave exactly where the event loop lets them.             *)
(*                                                                         *)
(* Time is a clock of ticks.  Requests served within one tick fall within  *)
(* one second, the resolution of the jwt `iat` claim.  The durations of    *)
(* the program are scaled down to a few ticks, keeping their order:        *)
(* rate-limit window < OTP lifetime < token and session lifetime.          *)
(***************************************************************************)
EXTENDS Integers, FiniteSets, Sequences, TLC

(* ------------------------------ bounds -------------------------------- *)
MaxTime == 1
MaxOtps == 2
MaxSessions == 2
MaxCompares == 4
MaxWait == 3

(* ------------------------- program constants -------------------------- *)
OneMinute == 1
OtpLifetime == 2
TokenLifetime == 3
SessionLifetime == 3
MaxAttempts == 3
ResetLimit == 1

Roles == {"doctor", "patient"}
Emails == {"a@x"}
Codes == {"111111", "222222"}
Passwords == {"pw1", "pw2"}
IssuePurposes == {"registration", "login"}
Procs == {1, 2}

\* the collections that hold accounts: Doctor, Patient, Admin
Collections == Roles \cup {"admin"}

AcctIds == Collections \X Emails

VARIABLES now, accounts, otps, sessions, pr

vars == <<now, accounts, otps, sessions, pr>>

(* ------------------------------ accounts ------------------------------ *)
\* bcrypt.hash in the pre-save hook; the stored value is never the plaintext
Hash(pw) == <<"bcrypt", pw>>

comparePassword(user, candidate) == user.password = Hash(candidate)

\* issuedAt is history: when the last OTP of each purpose was issued for
\* the account, -1 when none was or when it was long ago
NoAccount ==
  [exists |-> FALSE, password |-> Hash("pw1"), isEmailVerified |-> FALSE,
   isActive |-> TRUE, passwordResetCount |-> 0,
   suspensionReason |-> "", suspendedBy |-> <<>>, adminRole |-> "admin",
   issuedAt |-> [pu \in IssuePurposes |-> -1]]

\* a field of the request body that a handler copies onto the account
\* without a whitelist: <<field, value>>; <<"none", 0>> is a body that
\* carries profile fields only
BodyFields ==
  {<<"none", 0>>, <<"isEmailVerified", TRUE>>, <<"isActive", FALSE>>,
   <<"passwordResetCount", 0>>, <<"password", "pw2">>}

ApplyField(user, f) ==
  CASE f[1] = "isEmailVerified" -> [user EXCEPT !.isEmailVerified = f[2]]
    [] f[1] = "isActive" -> [user EXCEPT !.isActive = f[2]]
    [] f[1] = "passwordResetCount" -> [user EXCEPT !.passwordResetCount = f[2]]
    [] f[1] = "password" -> [user EXCEPT !.password = Hash(f[2])]
    [] OTHER -> user

(* ------------------------------ requests ------------------------------ *)
\* history kept on a record: compares and mismatches count the codes
\* compared against it and those of them that did not match; viaPassword
\* tells whether a login that had checked the password issued it;
\* supersedes holds the codes of the unverified records that its issuance
\* deleted
NoDoc ==
  [id |-> 0, email |-> "", role |-> "", purpose |-> "", otp |-> "", verified |-> FALSE,
   attempts |-> 0, createdAt |-> 0, expiresAt |-> 0, viaPassword |-> FALSE,
   compares |-> 0, mismatches |-> 0, supersedes |-> {}]

Idle ==
  [op |-> "none", pc |-> "idle", email |-> "", role |-> "", purpose |-> "", otp |-> "",
   password |-> "", body |-> <<"none", 0>>, otpDoc |-> NoDoc, resetCount |-> 0,
   token |-> <<>>, viaPassword |-> FALSE, deleted |-> {}, resp |-> "none",
   suspensionReason |-> "", adminContact |-> "", audits |-> 0]

Request(op, email, role, purpose, otp, password) ==
  [Idle EXCEPT !.op = op, !.email = email, !.role = role, !.purpose = purpose,
               !.otp = otp, !.password = password]

\* the enum of AuthLog.action, and the one of AdminActionLog.actionType
AuthLogActions ==
  {"login", "logout", "register", "failed_login", "otp_verification", "failed_otp",
   "otp_resend", "password_reset_request", "password_reset_success",
   "password_reset_failed", "password_change", "admin_login", "failed_admin_login",
   "user_suspension", "user_activation"}

\* the `action` of the audit entry that the handler writes on the path
\* that ends with the response, "" when the path writes none
AuditAction(op, status) ==
  CASE op = "register" ->
         IF status \in {"DuplicateEmail", "201"} THEN "register" ELSE ""
    [] op = "login" ->
         IF status \in {"InvalidCredentials", "EmailNotVerified", "AccountSuspended"}
         THEN "failed_login"
         ELSE IF status = "200" THEN "login" ELSE ""
    [] op = "resendOTP" -> IF status = "200" THEN "otp_resend" ELSE ""
    [] op = "verifyOTP" ->
         IF status \in {"OtpNotFound", "OtpExpired", "OtpExhausted", "OtpInvalid"}
         THEN "failed_otp"
         ELSE IF status = "200" THEN "otp_verification" ELSE ""
    [] op = "forgotPassword" ->
         IF status \in {"GenericNotFound", "ResetLimitReached"} THEN "password_reset_request"
         ELSE IF status = "200" THEN "password_reset_otp_sent" ELSE ""
    [] op = "resetPassword" ->
         IF status \in {"OtpInvalid", "OtpExpired"} THEN "password_reset_failed"
         ELSE IF status = "200" THEN "password_reset_success" ELSE ""
    [] op = "changePassword" ->
         IF status \in {"PasswordIncorrect", "200"} THEN "password_change" ELSE ""
    [] op = "adminLogin" ->
         IF status \in {"401", "403"} THEN "failed_admin_login"
         ELSE IF status = "200" THEN "admin_login" ELSE ""
    [] op = "toggleUserStatus" -> IF status = "200" THEN "user_suspension" ELSE ""
    [] OTHER -> ""

\* logAuthEvent and AuthLog.logEvent: the entries added, none when the
\* validation of the schema rejects the action
logAuthEvent(action) == IF action \in AuthLogActions THEN 1 ELSE 0

\* res.status(...).json(...): the handler has answered; the token is the
\* cookie of the request, or the one the response sets; audits is
\* history, the audit entries that the request has added
Respond(req, status) ==
  [Idle EXCEPT !.op = req.op, !.pc = "done", !.resp = status, !.token = req.token,
               !.audits = logAuthEvent(AuditAction(req.op, status))]

(* -------------------------------- OTP --------------------------------- *)
isExpiredLate(doc, t) == t > doc.expiresAt + 1

isExpired(doc, t) == t > doc.expiresAt

canAttemptOnceMore(doc) == doc.attempts <= MaxAttempts

canAttempt(doc) == doc.attempts < MaxAttempts

Unverified(email, purpose) ==
  {d \in otps : d.email = email /\ d.purpose = purpose /\ ~d.verified}

\* findOne(...).sort({createdAt: -1}): a most recent record of the set; the
\* order among records created at the same instant is the store's choice
MostRecent(S) == {d \in S : \A x \in S : x.createdAt <= d.createdAt}

checkRateLimit(email, purpose, t) ==
  LET S == {d \in otps : d.email = email /\ d.purpose = purpose}
  IN  \A d \in MostRecent(S) : ~(t - d.createdAt < OneMinute)

\* the _id of a new record: one that no stored record has and no handler holds
FreshId ==
  CHOOSE i \in 1..(MaxOtps + Cardinality(Procs)) :
    /\ \A d \in otps : d.id # i
    /\ \A p \in Procs : pr[p].otpDoc.id # i

Patient == <<"patient", "a@x">>

EmptyStore ==
  /\ now = 0
  /\ accounts = [a \in AcctIds |-> NoAccount]
  /\ otps = {}
  /\ sessions = {}
  /\ pr = [p \in Procs |-> Idle]

\* the event loop takes a new request; the handlers are interchangeable, so
\* a request is given to the first one that is free
Free(p) == pr[p].pc = "idle" /\ \A q \in Procs : q < p => pr[q].pc # "idle"

\* the response has been sent
Return(p) ==
  /\ pr[p].pc = "done"
  /\ pr' = [pr EXCEPT ![p] = Idle]
  /\ UNCHANGED <<now, accounts, otps, sessions>>

Tick ==
  /\ now < MaxTime
  /\ now' = now + 1
  /\ UNCHANGED <<accounts, otps, sessions, pr>>

\* time passes while OTP records wait to be used
Wait ==
  /\ now < MaxWait
  /\ now' = now + 1
  /\ UNCHANGED <<accounts, otps, sessions, pr>>

(* ------------------------- OTP.createOTP ------------------------------ *)
\* requests that still have an OTP record to insert
Issuing == {p \in Procs : pr[p].pc \in {"regSave", "otpDel", "otpCreate", "fDel", "fCreate"}}

CanIssue == Cardinality(otps) + Cardinality(Issuing) < MaxOtps

NewOtp(req, code, t) ==
  [id |-> FreshId, email |-> req.email, role |-> req.role, purpose |-> req.purpose,
   otp |-> code, verified |-> FALSE, attempts |-> 0, createdAt |-> t,
   expiresAt |-> t + OtpLifetime, viaPassword |-> req.viaPassword,
   compares |-> 0, mismatches |-> 0, supersedes |-> req.deleted]

CreateOTPKeep(p) ==
  /\ pr[p].pc = "otpDel"
  /\ pr' = [pr EXCEPT ![p].pc = "otpCreate",
                      ![p].deleted = {d.otp : d \in Unverified(pr[p].email, pr[p].purpose)}]
  /\ UNCHANGED <<now, accounts, otps, sessions>>

\* createOTP, first await: deleteMany({email, purpose, verified: false})
CreateOTPDelete(p) ==
  /\ pr[p].pc = "otpDel"
  /\ otps' = otps \ Unverified(pr[p].email, pr[p].purpose)
  /\ pr' = [pr EXCEPT ![p].pc = "otpCreate",
                      ![p].deleted = {d.otp : d \in Unverified(pr[p].email, pr[p].purpose)}]
  /\ UNCHANGED <<now, accounts, sessions>>

\* createOTP, second await: create(...), then the caller's response
CreateOTPCreate(p) ==
  /\ pr[p].pc = "otpCreate"
  /\ \E code \in Codes :
       otps' = otps \cup {NewOtp(pr[p], code, now)}
  /\ accounts' = [accounts EXCEPT ![<<pr[p].role, pr[p].email>>].issuedAt[pr[p].purpose] = now]
  /\ pr' = [pr EXCEPT ![p] = Respond(pr[p], IF pr[p].op = "register" THEN "201" ELSE "200")]
  /\ UNCHANGED <<now, sessions>>

(* ------------------------------ register ------------------------------ *)
\* name, email, password and role are taken out of the body; the rest of
\* it is spread over the new document
RegisterBodies == {f \in BodyFields : f[1] # "password"}

Register(p, email, role, password, body) ==
  /\ Free(p)
  /\ CanIssue
  /\ LET req == [Request("register", email, role, "registration", "", password)
                   EXCEPT !.body = body]
     IN  IF accounts[<<"doctor", email>>].exists \/ accounts[<<"patient", email>>].exists
         THEN pr' = [pr EXCEPT ![p] = Respond(req, "DuplicateEmail")]
         ELSE pr' = [pr EXCEPT ![p] = [req EXCEPT !.pc = "regSave"]]
  /\ UNCHANGED <<now, accounts, otps, sessions>>

NewUser(password, body) ==
  ApplyField([exists |-> TRUE, password |-> Hash(password), isEmailVerified |-> FALSE,
              isActive |-> TRUE, passwordResetCount |-> 0,
              suspensionReason |-> "", suspendedBy |-> <<>>, adminRole |-> "admin",
              issuedAt |-> [pu \in IssuePurposes |-> -1]], body)

\* user.save(): insert into the role's collection (unique index on email)
RegisterSave(p) ==
  /\ pr[p].pc = "regSave"
  /\ LET id == <<pr[p].role, pr[p].email>>
     IN  IF accounts[id].exists
         THEN /\ pr' = [pr EXCEPT ![p] = Respond(pr[p], "500")]
              /\ UNCHANGED accounts
         ELSE /\ accounts' = [accounts EXCEPT ![id] = NewUser(pr[p].password, pr[p].body)]
              /\ pr' = [pr EXCEPT ![p].pc = "otpDel"]
  /\ UNCHANGED <<now, otps, sessions>>

(* ------------------------------- login -------------------------------- *)
LoginResult(user, email, password, t) ==
  IF ~user.exists THEN "InvalidCredentials"
  ELSE IF ~user.isEmailVerified THEN "EmailNotVerified"
  ELSE IF ~user.isActive THEN "AccountSuspended"
  ELSE IF ~comparePassword(user, password) THEN "InvalidCredentials"
  ELSE IF ~checkRateLimit(email, "login", t) THEN "RateLimited"
  ELSE "issue"

\* the contact of the 403: the administrator that suspendedBy names when
\* Admin.findById finds it, otherwise the default contact
adminContact(user) ==
  IF user.suspendedBy # <<>> /\ accounts[user.suspendedBy].exists
  THEN user.suspendedBy[2] ELSE "support@healthconnect.com"

suspensionReasonRaw(user) == user.suspensionReason

\* user.suspensionReason || 'Your account has been suspended ...'
suspensionReason(user) ==
  IF user.suspensionReason = "" THEN "Your account has been suspended by an administrator."
  ELSE user.suspensionReason

Login(p, email, role, password) ==
  /\ Free(p)
  /\ CanIssue
  /\ LET req == [Request("login", email, role, "login", "", password)
                   EXCEPT !.viaPassword = TRUE]
         user == accounts[<<role, email>>]
         result == LoginResult(user, email, password, now)
     IN  pr' = [pr EXCEPT ![p] =
           IF result = "issue" THEN [req EXCEPT !.pc = "otpDel"]
           ELSE IF result = "AccountSuspended"
           THEN [Respond(req, result) EXCEPT !.suspensionReason = suspensionReason(user),
                                             !.adminContact = adminContact(user)]
           ELSE Respond(req, result)]
  /\ UNCHANGED <<now, accounts, otps, sessions>>

(* ----------------------------- resend-otp ----------------------------- *)
ResendOTP(p, email, role, purpose) ==
  /\ Free(p)
  /\ CanIssue
  /\ LET req == Request("resendOTP", email, role, purpose, "", "")
         user == accounts[<<role, email>>]
     IN  pr' = [pr EXCEPT ![p] =
           IF ~user.exists THEN Respond(req, "UserNotFound")
           ELSE IF ~checkRateLimit(email, purpose, now) THEN Respond(req, "RateLimited")
           ELSE [req EXCEPT !.pc = "otpDel"]]
  /\ UNCHANGED <<now, accounts, otps, sessions>>

(* ----------------------------- verify-otp ----------------------------- *)
\* requests that still have a session to insert
LoggingIn ==
  {p \in Procs : pr[p].pc \in {"vMark", "vUser", "gCreate"} /\ pr[p].purpose = "login"}

CanLogIn == Cardinality(sessions) + Cardinality(LoggingIn) < MaxSessions

\* the comparison of the submitted code with the one of the record, noted
\* on the record
Compared(doc, otp) ==
  {IF d.id = doc.id
   THEN [d EXCEPT !.compares = @ + 1,
                  !.mismatches = IF doc.otp # otp THEN @ + 1 ELSE @]
   ELSE d : d \in otps}

\* OTP.verifyOTP up to its first write: findOne, isExpired, canAttempt and
\* the comparison all act on the document as it was read
VerifyOTP(p, email, otp, role, purpose) ==
  /\ Free(p)
  /\ purpose = "login" => CanLogIn
  /\ LET req == Request("verifyOTP", email, role, purpose, otp, "")
         S == Unverified(email, purpose)
     IN  IF S = {}
         THEN /\ pr' = [pr EXCEPT ![p] = Respond(req, "OtpNotFound")]
              /\ UNCHANGED otps
         ELSE \E d \in MostRecent(S) :
                /\ d.compares < MaxCompares
                /\ IF isExpired(d, now) \/ ~canAttempt(d)
                   THEN /\ pr' = [pr EXCEPT ![p] =
                               [req EXCEPT !.pc = "vDelete", !.otpDoc = d,
                                           !.resp = IF isExpired(d, now) THEN "OtpExpired"
                                                    ELSE "OtpExhausted"]]
                        /\ UNCHANGED otps
                   ELSE /\ pr' = [pr EXCEPT ![p] =
                               [req EXCEPT !.pc = IF d.otp # otp THEN "vInc" ELSE "vMark",
                                           !.otpDoc = d]]
                        /\ otps' = Compared(d, otp)
  /\ UNCHANGED <<now, accounts, sessions>>

\* otpDoc.deleteOne() of an expired or exhausted record
VerifyDelete(p) ==
  /\ pr[p].pc = "vDelete"
  /\ otps' = {d \in otps : d.id # pr[p].otpDoc.id}
  /\ pr' = [pr EXCEPT ![p] = Respond(pr[p], pr[p].resp)]
  /\ UNCHANGED <<now, accounts, sessions>>

\* document.save(): $set of the modified path on the stored record; it
\* throws DocumentNotFoundError when the record is gone
SaveOtp(doc, field, value) ==
  {IF d.id = doc.id THEN [d EXCEPT ![field] = value] ELSE d : d \in otps}

Stored(doc) == \E d \in otps : d.id = doc.id

incrementAttempts(doc) == SaveOtp(doc, "attempts", doc.attempts + 1)

markAsVerified(doc) == SaveOtp(doc, "verified", TRUE)

VerifyIncrement(p) ==
  /\ pr[p].pc = "vInc"
  /\ IF Stored(pr[p].otpDoc)
     THEN /\ otps' = incrementAttempts(pr[p].otpDoc)
          /\ pr' = [pr EXCEPT ![p] = Respond(pr[p], "OtpInvalid")]
     ELSE /\ pr' = [pr EXCEPT ![p] = Respond(pr[p], "500")]
          /\ UNCHANGED otps
  /\ UNCHANGED <<now, accounts, sessions>>

VerifyMark(p) ==
  /\ pr[p].pc = "vMark"
  /\ IF Stored(pr[p].otpDoc)
     THEN /\ otps' = markAsVerified(pr[p].otpDoc)
          /\ pr' = [pr EXCEPT ![p].pc = "vUser"]
     ELSE /\ pr' = [pr EXCEPT ![p] = Respond(pr[p], "500")]
          /\ UNCHANGED otps
  /\ UNCHANGED <<now, accounts, sessions>>

(* --------------------------- generateToken ---------------------------- *)
\* jwt.sign({id, role}, secret, {expiresIn: '7d'}): the token is a function
\* of the payload and of the second it was signed in
JwtSecret == "secret"

\* the fourth component is the key the signature was made with
SignWith(key, userId, role, t) == <<userId, role, t, key>>

Sign(userId, role, t) == SignWith(JwtSecret, userId, role, t)

\* the role to userType mapping of generateToken
userTypeOf(role) ==
  IF role = "doctor" THEN "Doctor"
  ELSE IF role = "super_admin" \/ role = "user_management" THEN "Admin" ELSE "Patient"

enforceSingleDevice(userId, userType) ==
  {IF s.userId = userId /\ s.userType = userType /\ s.isActive
   THEN [s EXCEPT !.isActive = FALSE, !.revokedReason = "New device login - single device enforcement"]
   ELSE s : s \in sessions}

\* verifyOTP after a successful OTP.verifyOTP: the account lookup, the
\* save of the account, and generateToken up to enforceSingleDevice
VerifyUser(p) ==
  /\ pr[p].pc = "vUser"
  /\ LET id == <<pr[p].role, pr[p].email>>
     IN  IF ~accounts[id].exists
         THEN /\ pr' = [pr EXCEPT ![p] = Respond(pr[p], "UserNotFound")]
              /\ UNCHANGED <<accounts, sessions>>
         ELSE IF pr[p].purpose = "registration"
         THEN /\ accounts' = [accounts EXCEPT ![id].isEmailVerified = TRUE]
              /\ pr' = [pr EXCEPT ![p] = Respond(pr[p], "200")]
              /\ UNCHANGED sessions
         ELSE /\ sessions' = enforceSingleDevice(id, userTypeOf(pr[p].role))
              /\ pr' = [pr EXCEPT ![p].pc = "gCreate", ![p].token = Sign(id, pr[p].role, now)]
              /\ UNCHANGED accounts
  /\ UNCHANGED <<now, otps>>

\* viaPassword is history: whether the OTP that opened the session was
\* issued by a login that had checked the password
NewSession(req, t) ==
  [userId |-> <<req.role, req.email>>, userType |-> userTypeOf(req.role),
   token |-> req.token, isActive |-> TRUE, expiresAt |-> t + SessionLifetime,
   revokedReason |-> "", lastActivity |-> t, viaPassword |-> req.otpDoc.viaPassword]

\* Session.createSession: the insert fails on the unique index of `token`,
\* and generateToken swallows the failure
createSession(req, t) ==
  IF \E s \in sessions : s.token = req.token THEN sessions
  ELSE sessions \cup {NewSession(req, t)}

GenerateTokenCreate(p) ==
  /\ pr[p].pc = "gCreate"
  /\ sessions' = createSession(pr[p], now)
  /\ pr' = [pr EXCEPT ![p] = Respond(pr[p], "200")]
  /\ UNCHANGED <<now, accounts, otps>>

\* Session.findByToken
findByToken(token, t) ==
  {s \in sessions : s.token = token /\ s.isActive /\ s.expiresAt > t}

\* verifyToken: jwt.verify and the check of exp; the catch block logs the
\* error and returns nothing, so FALSE stands for `undefined`
verifyToken(token, t) ==
  /\ token[4] = JwtSecret
  /\ t < token[3] + TokenLifetime

\* protect: "next" when the handler is called, otherwise the status of the
\* response. Destructuring the `undefined` of verifyToken throws, and the
\* catch block of protect answers 400
protect(token, t) ==
  IF ~verifyToken(token, t) THEN "400"
  ELSE IF ~(token[2] \in {"patient", "doctor", "admin", "super_admin"}) THEN "401"
  ELSE IF ~accounts[token[1]].exists THEN "401"
  ELSE IF findByToken(token, t) = {} THEN "401"
  ELSE "next"

(* ----------------------------- adminLogin ----------------------------- *)
\* requests of an administrator that still have a session to insert
AdminLoggingIn == {p \in Procs : pr[p].pc = "aCreate"}

\* adminLogin up to enforceSingleDevice in generateToken: no OTP; the role
\* in the token is the `role` of the administrator's document
adminLogin(p, email, password) ==
  /\ Free(p)
  /\ Cardinality(sessions) + Cardinality(AdminLoggingIn) < MaxSessions
  /\ LET id == <<"admin", email>>
         admin == accounts[id]
         req == [Request("adminLogin", email, admin.adminRole, "", "", password)
                   EXCEPT !.viaPassword = TRUE]
     IN  IF ~admin.exists
         THEN /\ pr' = [pr EXCEPT ![p] = Respond(req, "401")]
              /\ UNCHANGED sessions
         ELSE IF ~admin.isActive
         THEN /\ pr' = [pr EXCEPT ![p] = Respond(req, "403")]
              /\ UNCHANGED sessions
         ELSE IF ~comparePassword(admin, password)
         THEN /\ pr' = [pr EXCEPT ![p] = Respond(req, "401")]
              /\ UNCHANGED sessions
         ELSE /\ sessions' = enforceSingleDevice(id, userTypeOf(admin.adminRole))
              /\ pr' = [pr EXCEPT ![p] =
                    [req EXCEPT !.pc = "aCreate", !.token = Sign(id, admin.adminRole, now)]]
  /\ UNCHANGED <<now, accounts, otps>>

\* Session.createSession in generateToken, then the 200 of adminLogin
adminLoginCreate(p) ==
  /\ pr[p].pc = "aCreate"
  /\ sessions' =
       IF \E s \in sessions : s.token = pr[p].token THEN sessions
       ELSE sessions \cup
              {[userId |-> <<"admin", pr[p].email>>, userType |-> userTypeOf(pr[p].role),
                token |-> pr[p].token, isActive |-> TRUE,
                expiresAt |-> now + SessionLifetime, revokedReason |-> "",
                lastActivity |-> now,
                viaPassword |-> TRUE]}
  /\ pr' = [pr EXCEPT ![p] = Respond(pr[p], "200")]
  /\ UNCHANGED <<now, accounts, otps>>

(* --------------------------- forgot-password -------------------------- *)
ForgotPassword(p, email, role) ==
  /\ Free(p)
  /\ CanIssue
  /\ LET req == Request("forgotPassword", email, role, "password-reset", "", "")
         user == accounts[<<role, email>>]
     IN  pr' = [pr EXCEPT ![p] =
           IF ~user.exists THEN Respond(req, "GenericNotFound")
           ELSE IF user.passwordResetCount >= ResetLimit THEN Respond(req, "ResetLimitReached")
           ELSE [req EXCEPT !.pc = "fDel"]]
  /\ UNCHANGED <<now, accounts, otps, sessions>>

\* OTP.deleteMany({email, purpose: 'password-reset'})
ForgotDelete(p) ==
  /\ pr[p].pc = "fDel"
  /\ otps' = {d \in otps : ~(d.email = pr[p].email /\ d.purpose = "password-reset")}
  /\ pr' = [pr EXCEPT ![p].pc = "fCreate",
                      ![p].deleted = {d.otp : d \in Unverified(pr[p].email, "password-reset")}]
  /\ UNCHANGED <<now, accounts, sessions>>

\* OTP.create({email, otp, purpose: 'password-reset', role, expiresAt})
ForgotCreate(p) ==
  /\ pr[p].pc = "fCreate"
  /\ \E code \in Codes :
       otps' = otps \cup {NewOtp(pr[p], code, now)}
  /\ pr' = [pr EXCEPT ![p] = Respond(pr[p], "200")]
  /\ UNCHANGED <<now, accounts, sessions>>

(* --------------------------- reset-password --------------------------- *)
\* a code that no pending password-reset record of the email carries was
\* submitted: noted on the pending records (history; the program stores
\* nothing)
Missed(email) ==
  {IF d \in Unverified(email, "password-reset") THEN [d EXCEPT !.mismatches = @ + 1]
   ELSE d : d \in otps}

\* OTP.findOne({email, otp, purpose: 'password-reset', verified: false}),
\* the expiry check, and the lookup of the account
ResetPassword(p, email, otp, password, role) ==
  /\ Free(p)
  /\ LET req == Request("resetPassword", email, role, "password-reset", otp, password)
         S == {d \in Unverified(email, "password-reset") : d.otp = otp}
         user == accounts[<<role, email>>]
     IN  IF S = {}
         THEN /\ \A d \in Unverified(email, "password-reset") : d.mismatches < MaxCompares
              /\ otps' = Missed(email)
              /\ pr' = [pr EXCEPT ![p] = Respond(req, "OtpInvalid")]
         ELSE \E d \in S :
                /\ d.compares < MaxCompares
                /\ pr' = [pr EXCEPT ![p] =
                     IF now > d.expiresAt
                     THEN [req EXCEPT !.pc = "rDelete", !.otpDoc = d, !.resp = "OtpExpired"]
                     ELSE IF ~user.exists
                     THEN [req EXCEPT !.pc = "rDelete", !.otpDoc = d, !.resp = "UserNotFound"]
                     ELSE [req EXCEPT !.pc = "rMark", !.otpDoc = d,
                                      !.resetCount = user.passwordResetCount]]
                /\ otps' = IF now > d.expiresAt \/ ~user.exists THEN otps
                           ELSE Compared(d, otp)
  /\ UNCHANGED <<now, accounts, sessions>>

\* OTP.deleteOne({_id}) of an expired record or of one without account
ResetDelete(p) ==
  /\ pr[p].pc = "rDelete"
  /\ otps' = {d \in otps : d.id # pr[p].otpDoc.id}
  /\ pr' = [pr EXCEPT ![p] = Respond(pr[p], pr[p].resp)]
  /\ UNCHANGED <<now, accounts, sessions>>

ResetMarkSkip(p) ==
  /\ pr[p].pc = "rMark"
  /\ pr' = [pr EXCEPT ![p].pc = "rSave"]
  /\ UNCHANGED <<now, accounts, otps, sessions>>

\* otpDoc.markAsVerified(), before the password is touched
ResetMark(p) ==
  /\ pr[p].pc = "rMark"
  /\ IF Stored(pr[p].otpDoc)
     THEN /\ otps' = markAsVerified(pr[p].otpDoc)
          /\ pr' = [pr EXCEPT ![p].pc = "rSave"]
     ELSE /\ pr' = [pr EXCEPT ![p] = Respond(pr[p], "500")]
          /\ UNCHANGED otps
  /\ UNCHANGED <<now, accounts, sessions>>

\* user.save(): the new password and the counter computed from the
\* account as it was read
ResetSave(p) ==
  /\ pr[p].pc = "rSave"
  /\ LET id == <<pr[p].role, pr[p].email>>
     IN  IF accounts[id].exists
         THEN /\ accounts' = [accounts EXCEPT
                   ![id].password = Hash(pr[p].password),
                   ![id].passwordResetCount = pr[p].resetCount + 1]
              /\ pr' = [pr EXCEPT ![p].pc = "rDone"]
         ELSE /\ pr' = [pr EXCEPT ![p] = Respond(pr[p], "500")]
              /\ UNCHANGED accounts
  /\ UNCHANGED <<now, otps, sessions>>

\* user.save() throws (the persistence layer fails, or the document does
\* not validate): nothing is written, and the catch block answers 500
ResetSaveFail(p) ==
  /\ pr[p].pc = "rSave"
  /\ pr' = [pr EXCEPT ![p] = Respond(pr[p], "500")]
  /\ UNCHANGED <<now, accounts, otps, sessions>>

\* OTP.deleteOne({_id}) after the reset
ResetDone(p) ==
  /\ pr[p].pc = "rDone"
  /\ otps' = {d \in otps : d.id # pr[p].otpDoc.id}
  /\ pr' = [pr EXCEPT ![p] = Respond(pr[p], "200")]
  /\ UNCHANGED <<now, accounts, sessions>>

(* ----------------------- authenticated requests ----------------------- *)
\* the tokens a client can present: the ones generateToken can have signed
\* for the patient
Tokens == {Sign(Patient, "patient", t) : t \in 0..MaxTime}

\* Session.updateActivity
updateActivity(token, t) ==
  {IF s.token = token /\ s.isActive THEN [s EXCEPT !.lastActivity = t] ELSE s :
     s \in sessions}

\* the sessions after protect: it refreshes the activity of the session
\* of the token before it calls the handler
Admitted(token, t) ==
  IF protect(token, t) = "next" THEN updateActivity(token, t) ELSE sessions

\* updatePatient (updateDoctor is the same code on the Doctor collection):
\* every key of the body is assigned to the document
UpdatePatient(p, token, body) ==
  /\ Free(p)
  /\ LET req == [Request("updatePatient", token[1][2], token[2], "", "", "")
                   EXCEPT !.token = token, !.body = body]
     IN  IF protect(token, now) = "next"
         THEN /\ accounts' = [accounts EXCEPT ![token[1]] = ApplyField(@, body)]
              /\ pr' = [pr EXCEPT ![p] = Respond(req, "200")]
         ELSE /\ pr' = [pr EXCEPT ![p] = Respond(req, protect(token, now))]
              /\ UNCHANGED accounts
  /\ sessions' = Admitted(token, now)
  /\ UNCHANGED <<now, otps>>

LogoutKeep(p, token) ==
  /\ Free(p)
  /\ LET req == [Request("logout", token[1][2], token[2], "", "", "") EXCEPT !.token = token]
     IN  pr' = [pr EXCEPT ![p] = Respond(req, IF protect(token, now) = "next" THEN "200"
                                              ELSE protect(token, now))]
  /\ sessions' = Admitted(token, now)
  /\ UNCHANGED <<now, accounts, otps>>

\* protect, then logout: the session of the cookie's token is revoked
Logout(p, token) ==
  /\ Free(p)
  /\ LET req == [Request("logout", token[1][2], token[2], "", "", "") EXCEPT !.token = token]
     IN  IF protect(token, now) = "next"
         THEN /\ sessions' = {IF s.token = token /\ s.isActive
                              THEN [s EXCEPT !.isActive = FALSE] ELSE s :
                                s \in Admitted(token, now)}
              /\ pr' = [pr EXCEPT ![p] = Respond(req, "200")]
         ELSE /\ pr' = [pr EXCEPT ![p] = Respond(req, protect(token, now))]
              /\ UNCHANGED sessions
  /\ UNCHANGED <<now, accounts, otps>>

ChangePassword(p, token, currentPassword, newPassword) ==
  /\ Free(p)
  /\ LET req == [Request("changePassword", token[1][2], token[2], "", "", newPassword)
                   EXCEPT !.token = token]
         user == accounts[token[1]]
     IN  IF protect(token, now) # "next"
         THEN /\ pr' = [pr EXCEPT ![p] = Respond(req, protect(token, now))]
              /\ UNCHANGED accounts
         ELSE IF ~comparePassword(user, currentPassword)
         THEN /\ pr' = [pr EXCEPT ![p] = Respond(req, "PasswordIncorrect")]
              /\ UNCHANGED accounts
         ELSE IF comparePassword(user, newPassword)
         THEN /\ pr' = [pr EXCEPT ![p] = Respond(req, "SamePassword")]
              /\ UNCHANGED accounts
         ELSE /\ accounts' = [accounts EXCEPT ![token[1]].password = Hash(newPassword)]
              /\ pr' = [pr EXCEPT ![p] = Respond(req, "200")]
  /\ sessions' = Admitted(token, now)
  /\ UNCHANGED <<now, otps>>

\* revokeSession of the session controller; a session is named by its token
revokeSession(p, token, target) ==
  /\ Free(p)
  /\ LET req == [Request("revokeSession", token[1][2], token[2], "", "", "")
                   EXCEPT !.token = token]
         found == {s \in Admitted(token, now) :
                     s.token = target /\ s.userId = token[1] /\ s.isActive}
     IN  IF protect(token, now) # "next"
         THEN /\ pr' = [pr EXCEPT ![p] = Respond(req, protect(token, now))]
              /\ UNCHANGED sessions
         ELSE IF found = {}
         THEN /\ pr' = [pr EXCEPT ![p] = Respond(req, "404")]
              /\ sessions' = Admitted(token, now)
         ELSE IF target = token
         THEN /\ pr' = [pr EXCEPT ![p] = Respond(req, "CurrentSession")]
              /\ sessions' = Admitted(token, now)
         ELSE /\ sessions' = {IF s \in found THEN [s EXCEPT !.isActive = FALSE] ELSE s :
                                s \in Admitted(token, now)}
              /\ pr' = [pr EXCEPT ![p] = Respond(req, "200")]
  /\ UNCHANGED <<now, accounts, otps>>

\* revokeAllSessions: every active session of the user but the current one
revokeAllSessions(p, token) ==
  /\ Free(p)
  /\ LET req == [Request("revokeAllSessions", token[1][2], token[2], "", "", "")
                   EXCEPT !.token = token]
     IN  IF protect(token, now) # "next"
         THEN /\ pr' = [pr EXCEPT ![p] = Respond(req, protect(token, now))]
              /\ UNCHANGED sessions
         ELSE /\ sessions' = {IF s.userId = token[1] /\ s.isActive /\ s.token # token
                              THEN [s EXCEPT !.isActive = FALSE] ELSE s :
                                s \in Admitted(token, now)}
              /\ pr' = [pr EXCEPT ![p] = Respond(req, "200")]
  /\ UNCHANGED <<now, accounts, otps>>

(* ----------------------------- background ----------------------------- *)
\* the TTL index on expiresAt: the store removes expired OTP records
OtpTtl ==
  /\ \E d \in otps : d.expiresAt < now
  /\ otps' = {d \in otps : ~(d.expiresAt < now)}
  /\ UNCHANGED <<now, accounts, sessions, pr>>

\* a run of cleanupExpiredSessions whose updateMany throws: the rejection
\* is logged by the catch of startSessionCleanup, and the interval goes on;
\* the run is noted as the request of the second handler
cleanupExpiredFail ==
  /\ \E s \in sessions : s.expiresAt < now /\ s.isActive
  /\ pr[2].pc = "idle"
  /\ pr' = [pr EXCEPT ![2] = Respond(Request("cleanupExpired", "", "", "", "", ""), "error")]
  /\ UNCHANGED <<now, accounts, otps, sessions>>

cleanupExpiredEarly ==
  /\ \E s \in sessions : s.expiresAt < now + SessionLifetime /\ s.isActive
  /\ sessions' = {IF s.expiresAt < now + SessionLifetime /\ s.isActive
                  THEN [s EXCEPT !.isActive = FALSE]
                  ELSE s : s \in sessions}
  /\ UNCHANGED <<now, accounts, otps, pr>>

\* Session.cleanupExpired, run by startSessionCleanup
cleanupExpired ==
  /\ \E s \in sessions : s.expiresAt < now /\ s.isActive
  /\ sessions' = {IF s.expiresAt < now /\ s.isActive THEN [s EXCEPT !.isActive = FALSE]
                  ELSE s : s \in sessions}
  /\ UNCHANGED <<now, accounts, otps, pr>>

(* --------------------------- specifications --------------------------- *)
\* the steps of an OTP issuance and of a verification
OtpStep(p) ==
  \/ CreateOTPDelete(p)
  \/ CreateOTPCreate(p)
  \/ VerifyDelete(p)
  \/ VerifyIncrement(p)
  \/ VerifyMark(p)
  \/ VerifyUser(p)
  \/ GenerateTokenCreate(p)
  \/ Return(p)

ResetStep(p) ==
  \/ \E e \in Emails, r \in Roles : ForgotPassword(p, e, r)
  \/ ForgotDelete(p)
  \/ ForgotCreate(p)
  \/ \E e \in Emails, c \in Codes, r \in Roles : ResetPassword(p, e, c, "pw2", r)
  \/ ResetDelete(p)
  \/ ResetMark(p)
  \/ ResetSave(p)
  \/ ResetSaveFail(p)
  \/ ResetDone(p)

\* a patient who has registered and verified the email address; the OTP
\* record of the registration has expired and is gone
Established ==
  /\ now = 0
  /\ accounts = [a \in AcctIds |->
       IF a[1] = "patient"
       THEN [NoAccount EXCEPT !.exists = TRUE, !.isEmailVerified = TRUE] ELSE NoAccount]
  /\ otps = {}
  /\ sessions = {}
  /\ pr = [p \in Procs |-> Idle]

RegisterStep(p) ==
  \/ \E e \in Emails, r \in Roles, b \in RegisterBodies : Register(p, e, r, "pw1", b)
  \/ RegisterSave(p)

LoginStep(p) ==
  \/ \E e \in Emails, r \in Roles, pw \in Passwords : Login(p, e, r, pw)
  \/ \E e \in Emails, r \in Roles, pu \in IssuePurposes : ResendOTP(p, e, r, pu)
  \/ \E e \in Emails, c \in Codes, r \in Roles, pu \in IssuePurposes :
       VerifyOTP(p, e, c, r, pu)
  \/ OtpStep(p)

SessionStep(p) ==
  \/ \E t \in Tokens, b \in BodyFields : UpdatePatient(p, t, b)
  \/ \E t \in Tokens : Logout(p, t)
  \/ \E t \in Tokens, cur \in Passwords : ChangePassword(p, t, cur, "pw2")

\* registration and login, requests served one at a time, from an empty store
NextRegister == Tick \/ RegisterStep(1) \/ LoginStep(1)

SpecRegister == EmptyStore /\ [][NextRegister]_vars

\* the logins of a registered patient, requests served one at a time
Init == Established

SeqStep(p) ==
  \/ \E e \in Emails, pw \in Passwords : Login(p, e, "patient", pw)
  \/ \E e \in Emails : ResendOTP(p, e, "patient", "login")
  \/ \E e \in Emails, c \in Codes : VerifyOTP(p, e, c, "patient", "login")
  \/ OtpStep(p)

Next == Tick \/ SeqStep(1)

Spec == Init /\ [][Next]_vars

\* two requests at a time that ask for a login OTP of the patient
IssueStep(p) ==
  \/ \E e \in Emails, pw \in Passwords : Login(p, e, "patient", pw)
  \/ \E e \in Emails : ResendOTP(p, e, "patient", "login")
  \/ CreateOTPDelete(p)
  \/ CreateOTPCreate(p)
  \/ Return(p)

NextIssue == Tick \/ \E p \in Procs : IssueStep(p)

SpecIssue == Established /\ [][NextIssue]_vars

\* the patient has logged in with the password and the login OTP is stored
Issued ==
  /\ now = 0
  /\ accounts = [a \in AcctIds |->
       IF a[1] = "patient"
       THEN [NoAccount EXCEPT !.exists = TRUE, !.isEmailVerified = TRUE,
                              !.issuedAt["login"] = 0]
       ELSE NoAccount]
  /\ otps = {[NoDoc EXCEPT !.id = 1, !.email = "a@x", !.role = "patient",
                           !.purpose = "login", !.otp = "111111",
                           !.expiresAt = OtpLifetime, !.viaPassword = TRUE]}
  /\ sessions = {}
  /\ pr = [p \in Procs |-> Idle]

\* two requests at a time that verify the login OTP
VerifyStep(p) ==
  \/ \E e \in Emails, c \in Codes : VerifyOTP(p, e, c, "patient", "login")
  \/ VerifyDelete(p)
  \/ VerifyIncrement(p)
  \/ VerifyMark(p)
  \/ VerifyUser(p)
  \/ GenerateTokenCreate(p)
  \/ Return(p)

NextVerify == Tick \/ \E p \in Procs : VerifyStep(p)

SpecVerify == Issued /\ [][NextVerify]_vars

\* password resets of the patient, two requests at a time
RaceResetStep(p) ==
  \/ \E e \in Emails : ForgotPassword(p, e, "patient")
  \/ ForgotDelete(p)
  \/ ForgotCreate(p)
  \/ \E e \in Emails, c \in Codes : ResetPassword(p, e, c, "pw2", "patient")
  \/ ResetMark(p)
  \/ ResetSave(p)
  \/ ResetDone(p)
  \/ Return(p)

NextReset == \E p \in Procs : RaceResetStep(p)

SpecReset == Established /\ [][NextReset]_vars

\* the patient has logged in: the session is active, and the verified
\* record of the login OTP is still stored
LoggedIn ==
  /\ now = 0
  /\ accounts = [a \in AcctIds |->
       IF a = Patient
       THEN [NoAccount EXCEPT !.exists = TRUE, !.isEmailVerified = TRUE,
                              !.issuedAt["login"] = 0]
       ELSE NoAccount]
  /\ otps = {[NoDoc EXCEPT !.id = 1, !.email = "a@x", !.role = "patient",
                           !.purpose = "login", !.otp = "111111", !.verified = TRUE,
                           !.expiresAt = OtpLifetime, !.viaPassword = TRUE,
                           !.compares = 1]}
  /\ sessions = {[userId |-> Patient, userType |-> "Patient",
                  token |-> Sign(Patient, "patient", 0), isActive |-> TRUE,
                  expiresAt |-> SessionLifetime, revokedReason |-> "",
                  lastActivity |-> 0,
                  viaPassword |-> TRUE]}
  /\ pr = [p \in Procs |-> Idle]

\* password resets and the requests of the logged-in patient, one at a time
NextProfile == Tick \/ ResetStep(1) \/ SessionStep(1) \/ Return(1)

SpecProfile == LoggedIn /\ [][NextProfile]_vars

\* the patient has asked for a login and for a password reset: both OTP
\* records are stored, unverified
Pending ==
  /\ now = 0
  /\ accounts = [a \in AcctIds |->
       IF a = Patient
       THEN [NoAccount EXCEPT !.exists = TRUE, !.isEmailVerified = TRUE,
                              !.issuedAt["login"] = 0]
       ELSE NoAccount]
  /\ otps = {[NoDoc EXCEPT !.id = 1, !.email = "a@x", !.role = "patient",
                           !.purpose = "login", !.otp = "111111",
                           !.expiresAt = OtpLifetime, !.viaPassword = TRUE],
             [NoDoc EXCEPT !.id = 2, !.email = "a@x", !.role = "patient",
                           !.purpose = "password-reset", !.otp = "111111",
                           !.expiresAt = OtpLifetime]}
  /\ sessions = {}
  /\ pr = [p \in Procs |-> Idle]

\* the use of stored OTP records as time passes, one request at a time
ExpiryStep(p) ==
  \/ \E e \in Emails, c \in Codes : VerifyOTP(p, e, c, "patient", "login")
  \/ VerifyDelete(p)
  \/ VerifyIncrement(p)
  \/ VerifyMark(p)
  \/ VerifyUser(p)
  \/ GenerateTokenCreate(p)
  \/ \E e \in Emails, c \in Codes, r \in Roles : ResetPassword(p, e, c, "pw2", r)
  \/ ResetDelete(p)
  \/ ResetMark(p)
  \/ ResetSave(p)
  \/ ResetDone(p)
  \/ Return(p)

NextExpiry == Wait \/ OtpTtl \/ ExpiryStep(1)

SpecExpiry == Pending /\ [][NextExpiry]_vars

\* the unverified records of a purpose are stored, and all have expired
AllExpired(purpose) ==
  \E e \in Emails :
    /\ Unverified(e, purpose) # {}
    /\ \A d \in Unverified(e, purpose) : now > d.expiresAt

\* C12 as stated: a verify-otp or a reset-password submitted while the
\* expired record is stored answers Expired
ExpiredAnswersExpired ==
  [][\A p \in Procs :
       /\ (pr[p].pc = "idle" /\ pr'[p].op = "verifyOTP" /\ AllExpired("login"))
          => pr'[p].resp = "OtpExpired"
       /\ (pr[p].pc = "idle" /\ pr'[p].op = "resetPassword" /\ AllExpired("password-reset"))
          => pr'[p].resp = "OtpExpired"]_vars

\* C12: a verify-otp that finds the expired record answers Expired whatever
\* the attempts and the code; a reset-password answers Expired when the
\* code is the one of the expired record, and the generic invalid-OTP
\* error otherwise; neither goes on to accept the record, and the one that
\* answers Expired has deleted the record when it answers
ExpiredNeverAccepted ==
  [][\A p \in Procs :
       /\ (pr[p].pc = "idle" /\ pr'[p].op = "verifyOTP" /\ AllExpired("login"))
          => pr'[p].pc = "vDelete" /\ pr'[p].resp = "OtpExpired"
       /\ (pr[p].pc = "idle" /\ pr'[p].op = "resetPassword" /\ AllExpired("password-reset"))
          => \/ pr'[p].pc = "rDelete" /\ pr'[p].resp = "OtpExpired"
                /\ pr'[p].otp = pr'[p].otpDoc.otp
             \/ pr'[p].pc = "done" /\ pr'[p].resp = "OtpInvalid"
       /\ (pr[p].pc \in {"vDelete", "rDelete"} /\ pr'[p].pc = "done")
          => pr'[p].resp = pr[p].resp /\ \A d \in otps' : d.id # pr[p].otpDoc.id]_vars

\* the correct code is submitted for an expired record that wrong codes
\* were tried on, and the verification is about to delete the record
ExpiredCorrectCode ==
  \E p \in Procs :
    /\ pr[p].pc = "vDelete"
    /\ pr[p].resp = "OtpExpired"
    /\ pr[p].otpDoc.attempts >= 1
    /\ pr[p].otp = pr[p].otpDoc.otp

\* the email is the one of an administrator, and of nobody else
AdminOnly ==
  /\ now = 0
  /\ accounts = [a \in AcctIds |->
       IF a[1] = "admin" THEN [NoAccount EXCEPT !.exists = TRUE, !.isEmailVerified = TRUE]
       ELSE NoAccount]
  /\ otps = {}
  /\ sessions = {}
  /\ pr = [p \in Procs |-> Idle]

\* registrations, two requests at a time
EnrollStep(p) ==
  \/ \E e \in Emails, r \in Roles : Register(p, e, r, "pw1", <<"none", 0>>)
  \/ RegisterSave(p)
  \/ CreateOTPDelete(p)
  \/ CreateOTPCreate(p)
  \/ Return(p)

NextEnroll == \E p \in Procs : EnrollStep(p)

SpecEnroll == AdminOnly /\ [][NextEnroll]_vars

\* the cookies a client can present: tokens of the patient signed with the
\* server's key, and tokens signed with another key
Presented ==
  {SignWith(k, Patient, "patient", t) : k \in {JwtSecret, "guess"}, t \in 0..MaxTime}

AuthStep(p) ==
  \/ \E t \in Presented, b \in BodyFields : UpdatePatient(p, t, b)
  \/ \E t \in Presented : Logout(p, t)
  \/ \E t \in Presented, cur \in Passwords : ChangePassword(p, t, cur, "pw2")

\* a further login of the patient
LoginAgainStep(p) ==
  \/ \E e \in Emails : Login(p, e, "patient", "pw1")
  \/ \E e \in Emails, c \in Codes : VerifyOTP(p, e, c, "patient", "login")
  \/ OtpStep(p)

\* the logged-in patient's requests and further logins, one request at a
\* time
NextSession == Tick \/ LoginAgainStep(1) \/ AuthStep(1)

SpecSession == LoggedIn /\ [][NextSession]_vars

\* the logged-in patient's requests as the token and the session age
NextToken == Wait \/ AuthStep(1) \/ Return(1)

SpecToken == LoggedIn /\ [][NextToken]_vars

\* the patient has logged in two ticks ago; the OTP record of that login
\* has expired and is gone
LoggedInEarlier ==
  /\ now = 0
  /\ accounts = [a \in AcctIds |->
       IF a = Patient
       THEN [NoAccount EXCEPT !.exists = TRUE, !.isEmailVerified = TRUE] ELSE NoAccount]
  /\ otps = {}
  /\ sessions = {[userId |-> Patient, userType |-> "Patient",
                  token |-> Sign(Patient, "patient", -2), isActive |-> TRUE,
                  expiresAt |-> SessionLifetime - 2, revokedReason |-> "",
                  lastActivity |-> -2, viaPassword |-> TRUE]}
  /\ pr = [p \in Procs |-> Idle]

\* the sweep of expired sessions while the patient logs in again
NextSweep ==
  Wait \/ cleanupExpired \/ cleanupExpiredFail \/ Return(2) \/ LoginAgainStep(1)

\* setInterval keeps scheduling the sweep
SpecSweep == LoggedInEarlier /\ [][NextSweep]_vars /\ WF_vars(cleanupExpired)

\* the roles of the schema of Admin
AdminRoles == {"admin", "super_admin"}

\* an administrator of either role exists
AdminEnrolled ==
  /\ now = 0
  /\ \E r \in AdminRoles :
       accounts = [a \in AcctIds |->
         IF a[1] = "admin"
         THEN [NoAccount EXCEPT !.exists = TRUE, !.isEmailVerified = TRUE, !.adminRole = r]
         ELSE NoAccount]
  /\ otps = {}
  /\ sessions = {}
  /\ pr = [p \in Procs |-> Idle]

AdminStep(p) ==
  \/ \E e \in Emails, pw \in Passwords : adminLogin(p, e, pw)
  \/ adminLoginCreate(p)
  \/ Return(p)

\* the logins of the administrator, two requests at a time
NextAdmin == Tick \/ \E p \in Procs : AdminStep(p)

SpecAdmin == AdminEnrolled /\ [][NextAdmin]_vars

Doctor == <<"doctor", "a@x">>

Administrator == <<"admin", "a@x">>

\* the `action` and the `reason` of a toggle-status body; "" is a reason
\* that is missing or empty
ToggleActions == {"suspend", "activate", "deactivate"}

Reasons == {"", "fraud"}

toggleUserStatusRevoke(p, adminId, id, action, reason) ==
  /\ Free(p)
  /\ accounts[adminId].exists
  /\ LET req == Request("toggleUserStatus", id[2], id[1], "", "", "")
     IN  IF ~accounts[id].exists
         THEN /\ pr' = [pr EXCEPT ![p] = Respond(req, "404")]
              /\ UNCHANGED <<accounts, sessions>>
         ELSE /\ accounts' = [accounts EXCEPT ![id] =
                   IF action = "suspend"
                   THEN [@ EXCEPT !.isActive = FALSE, !.suspensionReason = reason,
                                  !.suspendedBy = adminId]
                   ELSE [@ EXCEPT !.isActive = (action = "activate")]]
              /\ sessions' = IF action = "activate" THEN sessions
                             ELSE {IF s.userId = id THEN [s EXCEPT !.isActive = FALSE] ELSE s :
                                     s \in sessions}
              /\ pr' = [pr EXCEPT ![p] = Respond(req, "200")]
  /\ UNCHANGED <<now, otps>>

\* toggleUserStatus, called by an administrator that protect has admitted:
\* isActive is `action === 'activate'`, and only 'suspend' records the
\* reason and the administrator
toggleUserStatus(p, adminId, id, action, reason) ==
  /\ Free(p)
  /\ accounts[adminId].exists
  /\ LET req == Request("toggleUserStatus", id[2], id[1], "", "", "")
     IN  IF ~accounts[id].exists
         THEN /\ pr' = [pr EXCEPT ![p] = Respond(req, "404")]
              /\ UNCHANGED accounts
         ELSE /\ accounts' = [accounts EXCEPT ![id] =
                   IF action = "suspend"
                   THEN [@ EXCEPT !.isActive = FALSE, !.suspensionReason = reason,
                                  !.suspendedBy = adminId]
                   ELSE [@ EXCEPT !.isActive = (action = "activate")]]
              /\ pr' = [pr EXCEPT ![p] = Respond(req, "200")]
  /\ UNCHANGED <<now, otps, sessions>>

\* toggleUserStatus when AdminActionLog.create throws: the account has
\* been updated, and the catch block answers 500
toggleUserStatusAuditFail(p, adminId, id, action, reason) ==
  /\ Free(p)
  /\ accounts[adminId].exists
  /\ accounts[id].exists
  /\ accounts' = [accounts EXCEPT ![id] =
       IF action = "suspend"
       THEN [@ EXCEPT !.isActive = FALSE, !.suspensionReason = reason,
                      !.suspendedBy = adminId]
       ELSE [@ EXCEPT !.isActive = (action = "activate")]]
  /\ pr' = [pr EXCEPT ![p] =
       Respond(Request("toggleUserStatus", id[2], id[1], "", "", ""), "500")]
  /\ UNCHANGED <<now, otps, sessions>>

\* the administrator's document leaves the Admin collection; no handler
\* does it, and login expects it (Admin.findById may find nothing)
AdminRemoved ==
  /\ accounts[Administrator].exists
  /\ accounts' = [accounts EXCEPT ![Administrator].exists = FALSE]
  /\ UNCHANGED <<now, otps, sessions, pr>>

\* a doctor has registered, and has or has not verified the email address
\* yet; an administrator exists
DoctorEnrolled ==
  /\ now = 0
  /\ \E v \in BOOLEAN :
       accounts = [a \in AcctIds |->
         IF a = Doctor THEN [NoAccount EXCEPT !.exists = TRUE, !.isEmailVerified = v]
         ELSE IF a = Administrator
         THEN [NoAccount EXCEPT !.exists = TRUE, !.isEmailVerified = TRUE]
         ELSE NoAccount]
  /\ otps = {}
  /\ sessions = {}
  /\ pr = [p \in Procs |-> Idle]

SuspendStep(p) ==
  \/ \E a \in ToggleActions, r \in Reasons :
       toggleUserStatus(p, Administrator, Doctor, a, r)
  \/ \E a \in ToggleActions, r \in Reasons :
       toggleUserStatusAuditFail(p, Administrator, Doctor, a, r)
  \/ \E e \in Emails, pw \in Passwords : Login(p, e, "doctor", pw)
  \/ CreateOTPDelete(p)
  \/ CreateOTPCreate(p)
  \/ Return(p)

\* suspensions of the doctor and the doctor's logins, one request at a time
NextSuspend == Tick \/ AdminRemoved \/ SuspendStep(1)

SpecSuspend == DoctorEnrolled /\ [][NextSuspend]_vars

\* the patient has logged in a minute ago, and an administrator exists
Moderated ==
  /\ now = OneMinute
  /\ accounts = [a \in AcctIds |->
       IF a = Patient
       THEN [NoAccount EXCEPT !.exists = TRUE, !.isEmailVerified = TRUE,
                              !.issuedAt["login"] = 0]
       ELSE IF a[1] = "admin"
       THEN [NoAccount EXCEPT !.exists = TRUE, !.isEmailVerified = TRUE,
                              !.adminRole = "super_admin"]
       ELSE NoAccount]
  /\ otps = {[NoDoc EXCEPT !.id = 1, !.email = "a@x", !.role = "patient",
                           !.purpose = "login", !.otp = "111111", !.verified = TRUE,
                           !.expiresAt = OtpLifetime, !.viaPassword = TRUE,
                           !.compares = 1]}
  /\ sessions = {[userId |-> Patient, userType |-> "Patient",
                  token |-> Sign(Patient, "patient", 0), isActive |-> TRUE,
                  expiresAt |-> SessionLifetime, revokedReason |-> "",
                  lastActivity |-> 0, viaPassword |-> TRUE]}
  /\ pr = [p \in Procs |-> Idle]

\* the requests that revoke sessions, and the ones said to leave them alone
FrameStep(p) ==
  \/ \E t \in Tokens : Logout(p, t)
  \/ \E t \in Tokens, target \in Tokens : revokeSession(p, t, target)
  \/ \E t \in Tokens : revokeAllSessions(p, t)
  \/ \E t \in Tokens, cur \in Passwords : ChangePassword(p, t, cur, "pw2")
  \/ \E a \in {"suspend", "activate"} :
       toggleUserStatus(p, <<"admin", "a@x">>, Patient, a, "fraud")

\* a password reset of the patient
FrameResetStep(p) ==
  \/ \E e \in Emails : ForgotPassword(p, e, "patient")
  \/ ForgotDelete(p)
  \/ ForgotCreate(p)
  \/ \E e \in Emails, c \in Codes : ResetPassword(p, e, c, "pw2", "patient")
  \/ ResetMark(p)
  \/ ResetSave(p)
  \/ ResetDone(p)

\* the requests of the patient and the moderation of the account, one
\* request at a time
NextFrame == LoginAgainStep(1) \/ FrameResetStep(1) \/ FrameStep(1)

SpecFrame == Moderated /\ [][NextFrame]_vars

(* ------------------------------ accounts ------------------------------ *)
\* C16: no email belongs to accounts of two collections
EmailOneRole ==
  \A e \in Emails : Cardinality({c \in Collections : accounts[<<c, e>>].exists}) <= 1

\* C4: a login goes on to issue its OTP only for an email of which a
\* registration OTP has been verified
LoginNeedsVerifiedEmail ==
  \A p \in Procs :
    (pr[p].op = "login" /\ pr[p].pc = "otpDel") =>
      \E d \in otps : d.email = pr[p].email /\ d.purpose = "registration" /\ d.verified

\* C5: passwordResetCount is at most 1
ResetCountAtMostOne == \A a \in AcctIds : accounts[a].passwordResetCount <= 1

\* C11: a password reset goes on only with a record against which fewer
\* than three wrong codes were submitted
ResetCapApplies ==
  \A p \in Procs :
    (pr[p].op = "resetPassword" /\ pr[p].pc = "rMark") => pr[p].otpDoc.mismatches < 3

\* C15: the account is saved only after the OTP record was stored as
\* verified; a save that fails leaves the account as it was; and a
\* reset-password accepts only a record that none has accepted before
ResetMarksBeforeSave ==
  [][\A p \in Procs :
       /\ pr'[p].pc = "rSave"
          => \E d \in otps' : d.id = pr'[p].otpDoc.id /\ d.verified
       /\ (pr[p].pc = "rSave" /\ pr'[p].pc = "done") => accounts' = accounts
       /\ (pr[p].pc = "idle" /\ pr'[p].pc = "rMark")
          => pr'[p].otpDoc.compares = 0 /\ ~pr'[p].otpDoc.verified]_vars

\* the save of the account has failed after the OTP was accepted: the
\* record is stored as verified and the account is as it was
ResetSaveFailed ==
  /\ \E p \in Procs : pr[p].op = "resetPassword" /\ pr[p].pc = "done" /\ pr[p].resp = "500"
  /\ \E d \in otps : d.purpose = "password-reset" /\ d.verified /\ d.compares = 1
  /\ accounts[Patient].passwordResetCount = 0
  /\ accounts[Patient].password = Hash("pw1")

\* C6: passwordResetCount never decreases
ResetCountNeverDecreases ==
  [][\A a \in AcctIds :
       accounts'[a].passwordResetCount >= accounts[a].passwordResetCount]_vars

(* ------------------------------ sessions ------------------------------ *)
ActiveSessions(userId, userType) ==
  {s \in sessions : s.userId = userId /\ s.userType = userType /\ s.isActive
                       /\ s.expiresAt > now}

\* C1: at every moment, concurrent completions of a login included, an
\* account has at most one active, unexpired session
SingleDevice ==
  \A a \in AcctIds : Cardinality(ActiveSessions(a, userTypeOf(a[1]))) <= 1

\* C2: a login that completes after an earlier session of the user was
\* displaced leaves the user with exactly one active session
SecondLoginOneSession ==
  [][\A p \in Procs :
       (/\ pr[p].pc = "gCreate"
        /\ pr'[p].pc = "done"
        /\ \E s \in sessions : s.userId = Patient /\ s.revokedReason # "")
       => Cardinality(ActiveSessions(Patient, "Patient"))' = 1]_vars

\* C17: when generateToken returns, an active session holds the token it
\* returns
TokenHasSession ==
  [][\A p \in Procs :
       (pr[p].pc = "gCreate" /\ pr'[p].pc = "done") =>
         \E s \in sessions' : s.token = pr[p].token /\ s.isActive]_vars

\* C3: every session was opened by an OTP that a login issued after it had
\* checked the password
SessionsViaPassword == \A s \in sessions : s.viaPassword

(* -------------------------------- OTPs -------------------------------- *)
\* C7: at most one unverified OTP record for each (email, purpose)
OneUnverifiedOtp ==
  \A e \in Emails, pu \in IssuePurposes : Cardinality(Unverified(e, pu)) <= 1

\* C14: an OTP is issued for an (email, purpose) pair no sooner than one
\* minute after the OTP issued before it for the pair
IssuedOneMinuteApart ==
  [][\A p \in Procs :
       (pr[p].pc = "otpCreate" /\ pr'[p].pc = "done") =>
         LET last == accounts[<<pr[p].role, pr[p].email>>].issuedAt[pr[p].purpose]
         IN  last = -1 \/ now - last >= OneMinute]_vars

\* C13: a verified record is stored only while the request that verified
\* it is still being served
VerifiedRecordConsumed ==
  \A d \in otps :
    d.verified => \E p \in Procs : pr[p].pc \notin {"idle", "done"} /\ pr[p].otpDoc.id = d.id

\* a verification that has read its record and compared the code
Comparing(p) == pr[p].op = "verifyOTP" /\ pr[p].pc \in {"vInc", "vMark"}

FourthAttemptExhausted ==
  [][\A p \in Procs :
       /\ (/\ pr[p].pc = "idle"
           /\ pr'[p].op = "verifyOTP"
           /\ pr'[p].otpDoc.mismatches >= 3
           /\ ~isExpired(pr'[p].otpDoc, now))
          => pr'[p].pc = "vDelete" /\ pr'[p].resp = "OtpExhausted"
       /\ (pr[p].pc = "vDelete" /\ pr'[p].pc = "done")
          => pr'[p].resp = pr[p].resp /\ \A d \in otps' : d.id # pr[p].otpDoc.id]_vars

\* the fourth call submits the correct code and is about to delete the record
FourthAttemptCorrectCode ==
  \E p \in Procs :
    /\ pr[p].pc = "vDelete"
    /\ pr[p].resp = "OtpExhausted"
    /\ pr[p].otpDoc.mismatches = 3
    /\ pr[p].otp = pr[p].otpDoc.otp

\* C10: at most three codes are compared with a record, and its attempts
\* counter stays within 0..3
AtMostThreeCompares ==
  \A d \in otps : d.compares <= 3 /\ d.attempts \in 0..3

\* the requests that pass through protect
Protected == {"updatePatient", "logout", "changePassword"}

\* a session holds the token and no session that holds it is active
Revoked(S, token) ==
  /\ \E s \in S : s.token = token
  /\ \A s \in S : s.token = token => ~s.isActive

\* C18: when logout answers 200 the session of its token is inactive; a
\* token whose session is inactive keeps an inactive session, and every
\* request that presents it is rejected by protect (401, or 400 once the
\* token has expired) and leaves the accounts and the sessions alone
LoggedOutStaysOut ==
  [][\A p \in Procs :
       /\ (pr[p].pc = "idle" /\ pr'[p].op = "logout" /\ pr'[p].resp = "200")
          => Revoked(sessions', pr'[p].token)
       /\ \A t \in Presented : Revoked(sessions, t) => Revoked(sessions', t)
       /\ (/\ pr[p].pc = "idle"
           /\ pr'[p].op \in Protected
           /\ Revoked(sessions, pr'[p].token))
          => /\ protect(pr'[p].token, now) \in {"400", "401"}
             /\ pr'[p].resp = protect(pr'[p].token, now)
             /\ UNCHANGED <<accounts, sessions>>]_vars

\* a request presents the token of the session that logout has revoked,
\* while the token and the session have not expired
RequestAfterLogout ==
  \E p \in Procs :
    /\ pr[p].op = "updatePatient"
    /\ pr[p].pc = "done"
    /\ pr[p].resp = "401"
    /\ verifyToken(pr[p].token, now)
    /\ \E s \in sessions :
         s.token = pr[p].token /\ ~s.isActive /\ s.revokedReason = "" /\ s.expiresAt > now

\* C19: a request whose token fails the signature verification or has
\* expired is answered 401, and its handler does not run
BadTokenAnswers401 ==
  [][\A p \in Procs :
       (/\ pr[p].pc = "idle"
        /\ pr'[p].op \in Protected
        /\ ~verifyToken(pr'[p].token, now))
       => pr'[p].resp = "401" /\ UNCHANGED <<accounts, sessions>>]_vars

\* the response is the 403 of a suspended account with a reason and a
\* contact, and no OTP is being issued
Refused403(p) ==
  /\ pr'[p].pc = "done"
  /\ pr'[p].resp = "AccountSuspended"
  /\ pr'[p].suspensionReason # ""
  /\ pr'[p].adminContact # ""
  /\ otps' = otps

\* C20, as stated: a login of a suspended doctor with the correct
\* password is answered 403 AccountSuspended with a non-empty reason and a
\* non-empty contact, and issues no OTP
SuspendedLoginRefused ==
  [][\A p \in Procs, e \in Emails, pw \in Passwords :
       (/\ Login(p, e, "doctor", pw)
        /\ accounts[<<"doctor", e>>].exists
        /\ ~accounts[<<"doctor", e>>].isActive
        /\ comparePassword(accounts[<<"doctor", e>>], pw))
       => Refused403(p)]_vars

\* C20, amended: a login of a suspended doctor whose email address is
\* verified is answered 403 AccountSuspended with a non-empty reason and a
\* non-empty contact, and issues no OTP, whatever the password
VerifiedSuspendedLoginRefused ==
  [][\A p \in Procs, e \in Emails, pw \in Passwords :
       (/\ Login(p, e, "doctor", pw)
        /\ accounts[<<"doctor", e>>].exists
        /\ accounts[<<"doctor", e>>].isEmailVerified
        /\ ~accounts[<<"doctor", e>>].isActive)
       => Refused403(p)]_vars

\* the login of a doctor who was suspended without a reason by an
\* administrator that no longer exists has been answered
SuspendedNoReasonNoAdmin ==
  \E p \in Procs :
    /\ pr[p].op = "login"
    /\ pr[p].pc = "done"
    /\ pr[p].resp = "AccountSuspended"
    /\ pr[p].adminContact = "support@healthconnect.com"
    /\ accounts[Doctor].suspensionReason = ""
    /\ accounts[Doctor].suspendedBy = Administrator
    /\ ~accounts[Administrator].exists

\* C21: a login with a password that is not the account's password is
\* answered as the login of an absent account is, whatever the flags of
\* the account
LoginHidesExistence ==
  [][\A p \in Procs, e \in Emails, pw \in Passwords :
       (/\ Login(p, e, "doctor", pw)
        /\ accounts[<<"doctor", e>>].exists
        /\ ~comparePassword(accounts[<<"doctor", e>>], pw))
       => pr'[p] = Respond(Request("login", e, "doctor", "login", "", pw),
                           LoginResult(NoAccount, e, pw, now))]_vars

\* C22: forgot-password for an absent account is answered with the 200
\* that an account under the reset limit is answered with
ForgotHidesExistence ==
  [][\A p \in Procs, e \in Emails, r \in Roles :
       (ForgotPassword(p, e, r) /\ ~accounts[<<r, e>>].exists)
       => pr'[p].resp = "200"]_vars

\* the steps that change trust state
TrustOps ==
  {"register", "login", "verifyOTP", "forgotPassword", "resetPassword", "changePassword"}

\* C24: a request of a trust-changing step has added exactly one audit
\* entry when it is answered
OneAuditEntry ==
  \A p \in Procs : (pr[p].pc = "done" /\ pr[p].op \in TrustOps) => pr[p].audits = 1

\* C23: a suspension or activation whose audit write fails is answered as
\* the one whose audit write succeeds is, with 200
AuditFailureSwallowed ==
  [][\A p \in Procs, a \in ToggleActions, r \in Reasons :
       toggleUserStatusAuditFail(p, Administrator, Doctor, a, r)
       => pr'[p].resp = "200"]_vars

\* C25: the account that register saves is unverified, active and has
\* used no password reset; afterwards isEmailVerified becomes true only in
\* the verify-otp step of a registration OTP
CreatedUnverified ==
  [][\A id \in AcctIds :
       /\ (~accounts[id].exists /\ accounts'[id].exists)
          => /\ ~accounts'[id].isEmailVerified
             /\ accounts'[id].isActive
             /\ accounts'[id].passwordResetCount = 0
       /\ (accounts[id].exists /\ ~accounts[id].isEmailVerified
                               /\ accounts'[id].isEmailVerified)
          => \E p \in Procs : pr[p].pc = "vUser" /\ pr[p].purpose = "registration"]_vars

\* C26: the account of a session that a step creates is verified and
\* active at that step
SessionNeedsGoodStanding ==
  [][\A s \in sessions' \ sessions :
       accounts[s.userId].isEmailVerified /\ accounts[s.userId].isActive]_vars

\* the requests whose OTP.verifyOTP has succeeded on the record
Verified(id) ==
  {p \in Procs : pr[p].pc \in {"vUser", "gCreate"} /\ pr[p].otpDoc.id = id}

\* C27: at most one verification succeeds on an OTP record
SingleUseOtp ==
  \A d \in otps : Cardinality(Verified(d.id)) <= 1

\* the userType of the collection
CollectionType(collection) ==
  IF collection = "doctor" THEN "Doctor"
  ELSE IF collection = "patient" THEN "Patient" ELSE "Admin"

\* C28: a session carries the userType of the collection its account
\* lives in
SessionUserType ==
  \A s \in sessions : s.userType = CollectionType(s.userId[1])

\* the operation of the request that takes the step, when requests are
\* served one at a time
MovedOp == IF pr'[1].op # "none" THEN pr'[1].op ELSE pr[1].op

\* the operations that revoke sessions: logout, the two revocations, and
\* the ones that call generateToken and with it enforceSingleDevice
Revokers == {"logout", "revokeSession", "revokeAllSessions", "verifyOTP", "adminLogin"}

SweepDeactivatesExpired ==
  /\ (\E s \in sessions : s.expiresAt < now /\ s.isActive)
       ~> (\A s \in sessions : s.expiresAt < now => ~s.isActive)
  /\ [][cleanupExpired =>
          \A s \in sessions : ~(s.expiresAt < now) => s \in sessions']_vars

\* a sweep has failed, and a later one has deactivated the expired session
\* while the session of a later login is active
SweptAfterFailure ==
  /\ pr[2].op = "cleanupExpired"
  /\ pr[2].resp = "error"
  /\ \E s \in sessions : s.expiresAt < now /\ ~s.isActive /\ s.revokedReason = ""
  /\ \E s \in sessions : s.expiresAt > now /\ s.isActive
====
